---- MODULE Spec2Model ----
(***************************************************************************)
(* Model of vbox_cli.py: a command-line wrapper that parses its argument   *)
(* vector with argparse, builds one vboxmanage invocation and runs it with *)
(* subprocess.run(..., check=True).                                        *)
(*                                                                         *)
(* Command-line arguments are TLA+ strings; argv is the argument vector    *)
(* after the program name, so that Python's sys.argv[1] is argv[1] here.   *)
(* A run is: parse_args -> dispatch on sys.argv[1] -> handler ->           *)
(* subprocess.run -> (external process runs, exits) -> interpreter exit.   *)
(***************************************************************************)
EXTENDS Integers, Sequences, FiniteSets, TLC

(***************************************************************************)
(* Bounds of the explored input space.                                     *)
(***************************************************************************)
\* number of option items that may follow the first argument
MaxOpts == 3
\* the external process may exit with any status in 0..SampleExit, or 255
SampleExit == 3

(***************************************************************************)
(* Exit statuses of the Python interpreter.                                *)
(***************************************************************************)
\* normal return of main(), or argparse's help action (parser.exit())
ExitOk == 0
\* an exception that propagates out of main()
UncaughtExit == 1
\* ArgumentParser.error(): prints usage to stderr and exits
UsageExit == 2

\* the line written by the two placeholder branches
TodoLine == "//TODO: proper error handling"

(***************************************************************************)
(* Strings.                                                                *)
(***************************************************************************)
CharAt(s, i) == SubSeq(s, i, i)

\* characters str.split() treats as separators
Whitespace == {" ", "\t", "\n", "\r", "\f"}

StartsWith(s, p) == Len(p) <= Len(s) /\ SubSeq(s, 1, Len(p)) = p

HasSpace(s) == \E i \in 1..Len(s) : CharAt(s, i) = " "

\* str.split() without arguments: the maximal runs of non-whitespace
\* characters, in order; leading, trailing and repeated whitespace yield no
\* empty strings.
RECURSIVE SplitFrom(_, _, _, _)
SplitFrom(s, i, cur, acc) ==
    IF i > Len(s)
    THEN IF cur = "" THEN acc ELSE Append(acc, cur)
    ELSE IF CharAt(s, i) \in Whitespace
         THEN SplitFrom(s, i + 1, "", IF cur = "" THEN acc ELSE Append(acc, cur))
         ELSE SplitFrom(s, i + 1, cur \o CharAt(s, i), acc)

split(s) == SplitFrom(s, 1, "", <<>>)

(***************************************************************************)
(* Attribute values of the argparse Namespace: None or a string.           *)
(***************************************************************************)
None == [set |-> FALSE, val |-> ""]
Some(v) == [set |-> TRUE, val |-> v]

\* getattr(args, d): a Namespace has only the attributes of the sub-parser
\* that filled it
HasAttr(ns, d) == d \in DOMAIN ns

(***************************************************************************)
(* The handlers.  Each returns what it does: raise (an exception leaves    *)
(* the handler before subprocess.run is reached), cmd (the argument list   *)
(* given to subprocess.run, or <<>> when run is not called) and out (the   *)
(* lines printed).                                                         *)
(***************************************************************************)
Raises == [raise |-> TRUE, cmd |-> <<>>, out |-> <<>>]
Runs(c) == [raise |-> FALSE, cmd |-> c, out |-> <<>>]
Prints(l) == [raise |-> FALSE, cmd |-> <<>>, out |-> <<l>>]

opt_create(a) ==
    IF ~HasAttr(a, "vbox_vm_name") \/ ~HasAttr(a, "vbox_vm_groups")
          \/ ~HasAttr(a, "vbox_vm_os")
    THEN Raises                                   \* AttributeError
    ELSE IF ~a["vbox_vm_name"].set
    THEN Raises                                   \* TypeError: str + None
    ELSE LET s0 == "vboxmanage createvm --register --name "
                       \o a["vbox_vm_name"].val
             vbox_cmd_str ==
                 IF a["vbox_vm_groups"].set
                 THEN s0 \o " --groups " \o a["vbox_vm_groups"].val
                 ELSE IF a["vbox_vm_os"].set
                      THEN s0 \o " --ostype " \o a["vbox_vm_os"].val
                      ELSE s0
         IN  Runs(split(vbox_cmd_str))

opt_delete(a) ==
    IF ~HasAttr(a, "vbox_vm_identifier")
    THEN Raises
    ELSE IF ~a["vbox_vm_identifier"].set
    THEN Raises                                   \* None in the argument list
    ELSE Runs(<<"vboxmanage", "unregistervm", "--delete",
                a["vbox_vm_identifier"].val>>)

\* opt_info with its test inverted ("is None" for "is not None")
opt_info_inverted(a) ==
    IF ~HasAttr(a, "vbox_vm_identifier")
    THEN Raises
    ELSE IF ~a["vbox_vm_identifier"].set
         THEN Runs(<<"vboxmanage", "showvminfo", "--details",
                     a["vbox_vm_identifier"].val>>)
         ELSE Runs(<<"vboxmanage", "list", "vms">>)

opt_info(a) ==
    IF ~HasAttr(a, "vbox_vm_identifier")
    THEN Raises
    ELSE IF a["vbox_vm_identifier"].set
         THEN Runs(<<"vboxmanage", "showvminfo", "--details",
                     a["vbox_vm_identifier"].val>>)
         ELSE Runs(<<"vboxmanage", "list", "vms">>)

opt_status(a) ==
    IF ~HasAttr(a, "vbox_vm_action")
    THEN Raises
    ELSE IF a["vbox_vm_action"] = Some("start")
    THEN IF HasAttr(a, "vbox_vm_identifier") /\ a["vbox_vm_identifier"].set
         THEN Runs(<<"vboxmanage", "startvm", a["vbox_vm_identifier"].val,
                     "--type", "headless">>)
         ELSE Raises
    ELSE IF a["vbox_vm_action"] = Some("stop")
    THEN IF HasAttr(a, "vbox_vm_identifier") /\ a["vbox_vm_identifier"].set
         THEN Runs(<<"vboxmanage", "controlvm", a["vbox_vm_identifier"].val,
                     "poweroff">>)
         ELSE Raises
    ELSE Prints(TodoLine)

(***************************************************************************)
(* The parsers main() builds.  A parser is named by its sub-command; the   *)
(* top-level parser is TopParser.  An option is identified by its first    *)
(* long option string.                                                     *)
(***************************************************************************)
TopParser == ""
Commands == {"create", "delete", "info", "status"}

Store(id, strs, dest) ==
    [id |-> id, strings |-> strs, dest |-> dest, nargs |-> 1, const |-> "",
     help |-> FALSE]
StoreConst(id, const, dest) ==
    [id |-> id, strings |-> {id}, dest |-> dest, nargs |-> 0, const |-> const,
     help |-> FALSE]
\* the -h/--help option every ArgumentParser adds to itself
HelpOpt ==
    [id |-> "--help", strings |-> {"-h", "--help"}, dest |-> "", nargs |-> 0,
     const |-> "", help |-> TRUE]

parser_create ==
    {HelpOpt,
     Store("--name", {"--name"}, "vbox_vm_name"),
     Store("--groups", {"-g", "--groups"}, "vbox_vm_groups"),
     Store("--operating-system", {"-o", "--operating-system"}, "vbox_vm_os")}

parser_delete ==
    {HelpOpt,
     Store("--name", {"--name"}, "vbox_vm_identifier"),
     Store("--uuid", {"--uuid"}, "vbox_vm_identifier")}

parser_info ==
    {HelpOpt,
     Store("--name", {"--name"}, "vbox_vm_identifier"),
     Store("--uuid", {"--uuid"}, "vbox_vm_identifier")}

parser_status ==
    {HelpOpt,
     StoreConst("--start", "start", "vbox_vm_action"),
     StoreConst("--stop", "stop", "vbox_vm_action"),
     Store("--name", {"--name"}, "vbox_vm_identifier"),
     Store("--uuid", {"--uuid"}, "vbox_vm_identifier")}

Options(p) ==
    CASE p = "create" -> parser_create
      [] p = "delete" -> parser_delete
      [] p = "info"   -> parser_info
      [] p = "status" -> parser_status
      [] OTHER        -> {HelpOpt}

\* options declared with required=True
RequiredOpts(p) == IF p = "create" THEN {"--name"} ELSE {}

\* add_mutually_exclusive_group(required=...)
\* the delete group declared without required=True
vm_delete_exclusive_args_optional ==
    [members |-> {"--name", "--uuid"}, required |-> FALSE]
vm_delete_exclusive_args == [members |-> {"--name", "--uuid"}, required |-> TRUE]
vm_info_exclusive_args == [members |-> {"--name", "--uuid"}, required |-> FALSE]
\* the start/stop group declared without required=True
vm_status_exclusive_args_ops_optional ==
    [members |-> {"--start", "--stop"}, required |-> FALSE]
vm_status_exclusive_args_ops == [members |-> {"--start", "--stop"}, required |-> TRUE]
vm_status_exclusive_args_label == [members |-> {"--name", "--uuid"}, required |-> TRUE]

MutexGroups(p) ==
    CASE p = "delete" -> {vm_delete_exclusive_args}
      [] p = "info"   -> {vm_info_exclusive_args}
      [] p = "status" -> {vm_status_exclusive_args_ops,
                          vm_status_exclusive_args_label}
      [] OTHER        -> {}

OptById(p, id) == CHOOSE o \in Options(p) : o.id = id
OptionStrings(p) == UNION {o.strings : o \in Options(p)}
OptOfString(p, str) == CHOOSE o \in Options(p) : str \in o.strings

\* the attributes a sub-parser sets (to None when the option is absent)
Dests(p) == {o.dest : o \in {x \in Options(p) : ~x.help}}

(***************************************************************************)
(* argparse, as far as parse_args() of these parsers goes.  Tokens are     *)
(* classified as by ArgumentParser._parse_optional: "A" a positional       *)
(* argument, "O" an option (opt = "?" when no option of the parser         *)
(* matches), "E" an ambiguous abbreviation.  The classification covers     *)
(* exactly spelled options and abbreviations of long options; tokens       *)
(* holding "=", digits after a dash, or a short option with its value      *)
(* attached are not among the argument vectors explored.                   *)
(***************************************************************************)
Unknown == "?"

\* an argument starting with "-" that is no option string of p: the option
\* strings it abbreviates decide
parse_abbreviation(p, s, tuples) ==
    IF Cardinality(tuples) > 1
    THEN [kind |-> "E", opt |-> Unknown]
    ELSE IF Cardinality(tuples) = 1
    THEN [kind |-> "O", opt |-> OptOfString(p, CHOOSE str \in tuples : TRUE).id]
    ELSE IF HasSpace(s) THEN [kind |-> "A", opt |-> Unknown]
    ELSE [kind |-> "O", opt |-> Unknown]

parse_optional(p, s) ==
    IF s = "" THEN [kind |-> "A", opt |-> Unknown]
    ELSE IF CharAt(s, 1) # "-" THEN [kind |-> "A", opt |-> Unknown]
    ELSE IF s \in OptionStrings(p)
    THEN [kind |-> "O", opt |-> OptOfString(p, s).id]
    ELSE IF Len(s) = 1 THEN [kind |-> "A", opt |-> Unknown]
    ELSE parse_abbreviation(p, s,
             {str \in OptionStrings(p) : StartsWith(str, s)})

\* results of a parse
PError == [outcome |-> "error", ns |-> <<>>, extras |-> 0, sub |-> TopParser]
PHelp == [outcome |-> "help", ns |-> <<>>, extras |-> 0, sub |-> TopParser]
POk(ns, extras, sub) ==
    [outcome |-> "ok", ns |-> ns, extras |-> extras, sub |-> sub]

\* an option conflicts with an already taken option of one of its groups
Conflicts(p, id, seen) ==
    \E g \in MutexGroups(p) :
        id \in g.members /\ (g.members \ {id}) \cap seen # {}

\* after the last token: required options and required groups
RequiredMissing(p, seen) ==
    \/ RequiredOpts(p) \ seen # {}
    \/ \E g \in MutexGroups(p) : g.required /\ g.members \cap seen = {}

\* The option loop of a sub-parser's parse_known_args, from token i on:
\* ns the namespace so far, seen the options taken, extras the number of
\* tokens no option consumed.  consume looks at token i, consume_token at
\* its classification c, consume_optional at the option o it names.
RECURSIVE consume(_, _, _, _, _, _)
RECURSIVE consume_token(_, _, _, _, _, _, _)
RECURSIVE consume_optional(_, _, _, _, _, _, _)

consume_optional(p, toks, i, ns, seen, extras, o) ==
    IF o.help THEN PHelp
    ELSE IF o.nargs = 0
    THEN IF Conflicts(p, o.id, seen) THEN PError
         ELSE consume(p, toks, i + 1, [ns EXCEPT ![o.dest] = Some(o.const)],
                      seen \cup {o.id}, extras)
    ELSE IF i + 1 > Len(toks) \/ parse_optional(p, toks[i + 1]).kind # "A"
    THEN PError                              \* expected one argument
    ELSE IF Conflicts(p, o.id, seen) THEN PError
         ELSE consume(p, toks, i + 2, [ns EXCEPT ![o.dest] = Some(toks[i + 1])],
                      seen \cup {o.id}, extras)

consume_token(p, toks, i, ns, seen, extras, c) ==
    IF c.kind = "A" \/ c.opt = Unknown
    THEN consume(p, toks, i + 1, ns, seen, extras + 1)
    ELSE consume_optional(p, toks, i, ns, seen, extras, OptById(p, c.opt))

consume(p, toks, i, ns, seen, extras) ==
    IF i > Len(toks)
    THEN IF RequiredMissing(p, seen) THEN PError ELSE POk(ns, extras, p)
    ELSE consume_token(p, toks, i, ns, seen, extras,
                       parse_optional(p, toks[i]))

\* parse_known_args of the sub-parser p on the tokens after the sub-command
parse_known_args(p, toks) ==
    IF \E i \in 1..Len(toks) : parse_optional(p, toks[i]).kind = "E"
    THEN PError                              \* ambiguous option
    ELSE consume(p, toks, 1, [d \in Dests(p) |-> None], {}, 0)

\* _get_values dropping a leading "--" before the sub-command
get_values_strip(toks) == IF toks[1] = "--" THEN Tail(toks) ELSE toks

\* _get_values for the sub-command positional (nargs=PARSER): the strings
\* from the first positional on, a leading "--" included
get_values(toks) == toks

\* _SubParsersAction.__call__: the first value names the sub-parser
invoke_subparser(values) ==
    IF values[1] \notin Commands THEN PError          \* invalid choice
    ELSE parse_known_args(values[1], Tail(values))

subparsers(toks) == invoke_subparser(get_values(toks))

\* the extras of the top-level parser added to the result r of a sub-parser
with_extras(r, extras) ==
    IF r.outcome = "ok" THEN POk(r.ns, r.extras + extras, r.sub) ELSE r

\* The top-level parser from token i on: its only option is -h; the first
\* positional token (or "--") hands everything that follows to subparsers.
\* top_consume looks at token i, top_token at its classification c.
RECURSIVE top_consume(_, _, _)
RECURSIVE top_token(_, _, _, _)

top_token(a, i, extras, c) ==
    IF c.kind = "A"
    THEN IF a[i] = "--" /\ i = Len(a)
         THEN POk(<<>>, extras + 1, TopParser)
         ELSE with_extras(subparsers(SubSeq(a, i, Len(a))), extras)
    ELSE IF c.opt = Unknown
    THEN top_consume(a, i + 1, extras + 1)
    ELSE PHelp

top_consume(a, i, extras) ==
    IF i > Len(a)
    THEN POk(<<>>, extras, TopParser)        \* no sub-command: not required
    ELSE top_token(a, i, extras,
                   IF a[i] = "--" THEN [kind |-> "A", opt |-> Unknown]
                   ELSE parse_optional(TopParser, a[i]))

\* unrecognized arguments are an error
reject_extras(r) ==
    IF r.outcome = "ok" /\ r.extras > 0 THEN PError ELSE r

\* parser.parse_args()
parse_args(a) == reject_extras(top_consume(a, 1, 0))

\* subprocess.run(check=True) once the process has exited with rc:
\* CalledProcessError is raised on a non-zero status and nothing catches it
run_check(rc) == IF rc # 0 THEN UncaughtExit ELSE ExitOk

\* the handler main() calls for sys.argv[1]
dispatch(a, ns) ==
    CASE a[1] = "create" -> opt_create(ns)
      [] a[1] = "delete" -> opt_delete(ns)
      [] a[1] = "info"   -> opt_info(ns)
      [] a[1] = "status" -> opt_status(ns)
      [] OTHER           -> Prints(TodoLine)

(***************************************************************************)
(* The argument vectors explored: an optional first argument followed by   *)
(* up to MaxOpts option items.                                             *)
(***************************************************************************)
FirstItems ==
    {<<>>, <<"create">>, <<"delete">>, <<"info">>, <<"status">>,
     <<"-h">>, <<"--">>, <<"bogus">>}

OptItems ==
    {<<"--name", "vm1">>, <<"--name", "">>, <<"--name", "a b">>,
     <<"--nam", "vm1">>, <<"--name">>,
     <<"--uuid", "abc-123">>,
     <<"-g", "g1">>, <<"--groups", "a b">>,
     <<"--operating-system", "os1">>,
     <<"--start">>, <<"--stop">>,
     <<"-h">>, <<"info">>}

RECURSIVE Flatten(_)
Flatten(ss) == IF ss = <<>> THEN <<>> ELSE Head(ss) \o Flatten(Tail(ss))

ArgvSet ==
    {f \o Flatten(s) : f \in FirstItems,
                       s \in UNION {[1..k -> OptItems] : k \in 0..MaxOpts}}

\* exit statuses of the external process
ProcExitCodes == (0..SampleExit) \cup {255}

(***************************************************************************)
(* State.                                                                  *)
(***************************************************************************)
VARIABLES
    argv,        \* sys.argv[1:]
    pc,          \* "start", "parsed", "waiting" (inside subprocess.run), "done"
    args,        \* the Namespace parse_args returned
    validated,   \* parse_args returned (it neither exited nor failed)
    subcommand,  \* the sub-parser that filled args, TopParser if none did
    handler,     \* the handler main called, "" if none
    helpShown,   \* a help action printed the help text and exited
    spawnLog,    \* the argument lists given to subprocess.run, in order
    proc,        \* external process: "none", "running", "exited", "notfound"
    procExit,    \* its exit status, -1 until it has exited
    exitStatus,  \* exit status of the program, -1 until it has exited
    stdout       \* lines printed by the program itself

vars == <<argv, pc, args, validated, subcommand, handler, helpShown,
          spawnLog, proc, procExit, exitStatus, stdout>>

Init ==
    /\ argv \in ArgvSet
    /\ pc = "start"
    /\ args = <<>>
    /\ validated = FALSE
    /\ subcommand = TopParser
    /\ handler = ""
    /\ helpShown = FALSE
    /\ spawnLog = <<>>
    /\ proc = "none"
    /\ procExit = -1
    /\ exitStatus = -1
    /\ stdout = <<>>

\* args = parser.parse_args()
main_parse ==
    /\ pc = "start"
    /\ \E r \in {parse_args(argv)} :
       /\ validated' = (r.outcome = "ok")
       /\ helpShown' = (r.outcome = "help")
       /\ args' = r.ns
       /\ subcommand' = r.sub
       /\ pc' = IF r.outcome = "ok" THEN "parsed" ELSE "done"
       /\ exitStatus' = CASE r.outcome = "ok"   -> exitStatus
                          [] r.outcome = "help" -> ExitOk
                          [] OTHER              -> UsageExit
    /\ UNCHANGED <<argv, handler, spawnLog, proc, procExit, stdout>>

\* the if/elif chain on sys.argv[1] and the handler it calls, up to the
\* start of the external process
main_dispatch ==
    /\ pc = "parsed"
    /\ IF Len(argv) < 1
       THEN /\ pc' = "done"                         \* IndexError
            /\ exitStatus' = UncaughtExit
            /\ UNCHANGED <<handler, spawnLog, proc, stdout>>
       ELSE \E h \in {dispatch(argv, args)} :
            /\ handler' = IF argv[1] \in Commands THEN "opt_" \o argv[1] ELSE ""
            /\ stdout' = stdout \o h.out
            /\ IF h.raise
               THEN /\ pc' = "done"
                    /\ exitStatus' = UncaughtExit
                    /\ UNCHANGED <<spawnLog, proc>>
               ELSE IF h.cmd = <<>>
               THEN /\ pc' = "done"                 \* main returns
                    /\ exitStatus' = ExitOk
                    /\ UNCHANGED <<spawnLog, proc>>
               ELSE /\ spawnLog' = Append(spawnLog, h.cmd)
                    /\ \E found \in BOOLEAN :
                          IF found
                          THEN /\ proc' = "running"
                               /\ pc' = "waiting"
                               /\ UNCHANGED exitStatus
                          ELSE /\ proc' = "notfound"   \* FileNotFoundError
                               /\ pc' = "done"
                               /\ exitStatus' = UncaughtExit
    /\ UNCHANGED <<argv, args, validated, subcommand, helpShown, procExit>>

\* the external process ends with some exit status
process_exits ==
    /\ proc = "running"
    /\ \E rc \in ProcExitCodes :
          /\ proc' = "exited"
          /\ procExit' = rc
    /\ UNCHANGED <<argv, pc, args, validated, subcommand, handler, helpShown,
                   spawnLog, exitStatus, stdout>>

\* subprocess.run returns or raises, the handler and main return
run_returns ==
    /\ pc = "waiting"
    /\ proc = "exited"
    /\ pc' = "done"
    /\ exitStatus' = run_check(procExit)
    /\ UNCHANGED <<argv, args, validated, subcommand, handler, helpShown,
                   spawnLog, proc, procExit, stdout>>

Next == main_parse \/ main_dispatch \/ process_exits \/ run_returns

Spec == Init /\ [][Next]_vars

TypeOK ==
    /\ pc \in {"start", "parsed", "waiting", "done"}
    /\ proc \in {"none", "running", "exited", "notfound"}
    /\ exitStatus \in {-1, ExitOk, UncaughtExit, UsageExit}
    /\ procExit \in {-1} \cup ProcExitCodes

(***************************************************************************)
(* What the argument vector supplies, read off argv with the options of    *)
(* the sub-parser named by its first argument.                             *)
(***************************************************************************)
Supplies(id) ==
    /\ argv # <<>>
    /\ argv[1] \in Commands
    /\ \E i \in 2..Len(argv) :
          parse_optional(argv[1], argv[i]) = [kind |-> "O", opt |-> id]

HelpRequested ==
    \E i \in 1..Len(argv) : argv[i] \in {"-h", "--help"}

Elems(q) == {q[i] : i \in 1..Len(q)}

\* the run reached subprocess.run
Spawned == spawnLog # <<>>

(***************************************************************************)
(* C1.  Exit status of a run whose external process ran to completion.     *)
(***************************************************************************)
\* C1 as stated: when the external process was spawned and has exited, the
\* exit status of the program equals the exit status of the process (0 for
\* 0, n for n in 1..255).
C1_ExitStatusMirrorsProcess ==
    (pc = "done" /\ proc = "exited") => exitStatus = procExit

(***************************************************************************)
(* C2.  No sub-command.                                                    *)
(***************************************************************************)
\* C2: a run with an empty argument vector ends with the usage exit status
\* (the status of every other argument-validation failure) and starts no
\* external process.
C2_NoSubcommandIsUsageError ==
    /\ argv = <<>> => ~Spawned
    /\ (argv = <<>> /\ pc = "done") => exitStatus = UsageExit

(***************************************************************************)
(* C3.  delete and status with neither or both of --name and --uuid.       *)
(***************************************************************************)
NeitherOrBoth ==
    /\ argv # <<>>
    /\ argv[1] \in {"delete", "status"}
    /\ Supplies("--name") <=> Supplies("--uuid")

\* C3 as stated: a delete or status invocation that supplies neither or
\* both of --name and --uuid ends in the usage error, and no external
\* process is spawned in any state of the run.
C3_NeitherOrBothIsUsageError ==
    NeitherOrBoth =>
        /\ ~Spawned /\ proc = "none"
        /\ pc = "done" => exitStatus = UsageExit

\* C3 amended: such an invocation never spawns an external process, and it
\* ends in the usage error unless a help option is reached first, in which
\* case the help text is printed and the exit status is 0.
C3_NeitherOrBothNeverSpawns ==
    NeitherOrBoth =>
        /\ ~Spawned /\ proc = "none"
        /\ pc # "parsed" /\ pc # "waiting"
        /\ pc = "done" =>
              \/ exitStatus = UsageExit
              \/ helpShown /\ HelpRequested /\ exitStatus = 0

C3_Witness ==
    /\ pc = "done" /\ exitStatus = UsageExit /\ ~Spawned
    /\ argv = <<"status", "--start", "--name", "vm1", "--uuid", "abc-123">>

(***************************************************************************)
(* C4.  The argument list of create.                                       *)
(***************************************************************************)
\* C4: for a create run that reaches subprocess.run, the argument list is
\* vboxmanage createvm --register --name <name> followed by at most one
\* option pair, the name and the option value each being one element equal
\* to the supplied string.
C4_CreateArgumentList ==
    (validated /\ subcommand = "create" /\ Spawned) =>
        LET base == <<"vboxmanage", "createvm", "--register", "--name",
                      args["vbox_vm_name"].val>>
        IN  spawnLog[1] \in
               {base,
                base \o <<"--groups", args["vbox_vm_groups"].val>>,
                base \o <<"--ostype", args["vbox_vm_os"].val>>}

(***************************************************************************)
(* C5.  groups before os-type.                                             *)
(***************************************************************************)
FollowedBy(q, flag, v) ==
    \E i \in 1..(Len(q) - 1) : q[i] = flag /\ q[i + 1] = v

\* C5: for a create run that reaches subprocess.run, if groups is supplied
\* the argument list holds "--groups" followed by the groups value and no
\* element "--ostype"; if only os-type is supplied it holds "--ostype"
\* followed by the os-type value and no element "--groups".
C5_GroupsPrecedence ==
    (validated /\ subcommand = "create" /\ Spawned) =>
        /\ args["vbox_vm_groups"].set =>
              /\ FollowedBy(spawnLog[1], "--groups", args["vbox_vm_groups"].val)
              /\ "--ostype" \notin Elems(spawnLog[1])
        /\ (~args["vbox_vm_groups"].set /\ args["vbox_vm_os"].set) =>
              /\ FollowedBy(spawnLog[1], "--ostype", args["vbox_vm_os"].val)
              /\ "--groups" \notin Elems(spawnLog[1])

(***************************************************************************)
(* C6.  Non-empty identifier and name.                                     *)
(***************************************************************************)
\* C6: once parsing has succeeded for delete or status the identifier is
\* non-empty, once it has succeeded for create the name is non-empty, and
\* no argument list given to the external process holds an empty string.
C6_IdentifierNonEmpty ==
    /\ (validated /\ subcommand \in {"delete", "status"}) =>
          args["vbox_vm_identifier"].set /\ args["vbox_vm_identifier"].val # ""
    /\ (validated /\ subcommand = "create") =>
          args["vbox_vm_name"].set /\ args["vbox_vm_name"].val # ""
    /\ \A k \in 1..Len(spawnLog) : "" \notin Elems(spawnLog[k])

(***************************************************************************)
(* C7.  The argument list of status.                                       *)
(***************************************************************************)
\* C7: a status invocation is accepted only when exactly one of --start and
\* --stop is supplied; an accepted one runs startvm <id> --type headless
\* for --start and controlvm <id> poweroff for --stop, <id> being the
\* identifier, and never takes the placeholder branch.
C7_StatusArgumentList ==
    (validated /\ subcommand = "status") =>
        /\ Supplies("--start") # Supplies("--stop")
        /\ args["vbox_vm_action"] = Some(IF Supplies("--start") THEN "start" ELSE "stop")
        /\ stdout = <<>>
        /\ pc # "parsed" =>
              /\ handler = "opt_status"
              /\ spawnLog =
                   << IF Supplies("--start")
                      THEN <<"vboxmanage", "startvm",
                             args["vbox_vm_identifier"].val, "--type", "headless">>
                      ELSE <<"vboxmanage", "controlvm",
                             args["vbox_vm_identifier"].val, "poweroff">> >>

C7_Witness ==
    /\ pc = "done"
    /\ argv = <<"status", "--stop", "--uuid", "abc-123">>
    /\ spawnLog = << <<"vboxmanage", "controlvm", "abc-123", "poweroff">> >>
    /\ proc = "exited"

(***************************************************************************)
(* C8.  The argument list of info.                                         *)
(***************************************************************************)
InfoArgumentList ==
    (validated /\ subcommand = "info") =>
        /\ args["vbox_vm_identifier"].set <=>
              (Supplies("--name") \/ Supplies("--uuid"))
        /\ pc # "parsed" =>
              /\ handler = "opt_info"
              /\ spawnLog =
                   << IF Supplies("--name") \/ Supplies("--uuid")
                      THEN <<"vboxmanage", "showvminfo", "--details",
                             args["vbox_vm_identifier"].val>>
                      ELSE <<"vboxmanage", "list", "vms">> >>

InfoBoth ==
    argv # <<>> /\ argv[1] = "info" /\ Supplies("--name") /\ Supplies("--uuid")

\* C8 as stated: an accepted info invocation runs list vms when no
\* identifier is supplied and showvminfo --details <id> when one is (by
\* --name or by --uuid); an info invocation supplying both --name and
\* --uuid is rejected as a usage error.
C8_InfoBothIsUsageError ==
    /\ InfoArgumentList
    /\ InfoBoth => (~Spawned /\ (pc = "done" => exitStatus = UsageExit))

\* C8 amended: the same, except that an info invocation supplying both
\* --name and --uuid is rejected as a usage error unless a help option is
\* reached before the conflict, in which case the help text is printed and
\* the exit status is 0; either way nothing is spawned.
C8_InfoArgumentList ==
    /\ InfoArgumentList
    /\ InfoBoth =>
          /\ ~Spawned
          /\ pc = "done" =>
                \/ exitStatus = UsageExit
                \/ helpShown /\ HelpRequested /\ exitStatus = 0

C8_Witness ==
    /\ pc = "done"
    /\ argv = <<"info", "--uuid", "abc-123">>
    /\ spawnLog = << <<"vboxmanage", "showvminfo", "--details", "abc-123">> >>

(***************************************************************************)
(* C9.  One external process per run.                                      *)
(***************************************************************************)
\* C9: subprocess.run is reached at most once in a run, and exactly once
\* when argument validation succeeded; the program has not exited while the
\* process is running; a process that exited non-zero is not followed by a
\* second one.
C9_SpawnedExactlyOnce ==
    /\ Len(spawnLog) <= 1
    /\ (validated /\ pc \in {"waiting", "done"}) => Len(spawnLog) = 1
    /\ proc = "running" => pc = "waiting"
    /\ (proc = "exited" /\ procExit # 0) => Len(spawnLog) = 1

(***************************************************************************)
(* C10.  The placeholder branches.                                         *)
(***************************************************************************)
\* C10: the placeholder line is never printed; whenever parse_args accepted
\* a sub-command, the handler main calls for sys.argv[1] is the handler of
\* that sub-command; and a run that ends with exit status 0 without having
\* printed help has spawned one external process, which exited 0.
C10_PlaceholderUnreachable ==
    /\ TodoLine \notin Elems(stdout)
    /\ handler # "" => handler = "opt_" \o subcommand
    /\ (validated /\ subcommand # TopParser /\ pc # "parsed") =>
          handler = "opt_" \o subcommand
    /\ (pc = "done" /\ exitStatus = 0 /\ ~helpShown) =>
          Len(spawnLog) = 1 /\ proc = "exited" /\ procExit = 0

C10_Witness ==
    /\ pc = "done" /\ exitStatus = 0 /\ ~helpShown
    /\ handler = "opt_status" /\ subcommand = "status"
    /\ proc = "exited" /\ procExit = 0
====
